---- MODULE Spec2Model ----
(***************************************************************************)
(* A model of the simulation core of the repository: the deferred-event    *)
(* dispatcher (src/src/world/event_system.py), the entity/time registry    *)
(* (src/src/world/world_state.py), the game loop                           *)
(* (src/src/game/game_engine.py) and the action layer                      *)
(* (src/src/game/action_handler.py).                                       *)
(*                                                                         *)
(* Every public method is one action.  The variable `last` records the     *)
(* most recent call: its name, its arguments, what it returned (or that    *)
(* it raised) and a snapshot of the state it started from, so that a       *)
(* method's contract is a state predicate over `last` and the state.       *)
(***************************************************************************)
EXTENDS Integers, Sequences, FiniteSets, TLC

VARIABLES
    events,         \* EventSystem._events: the list of ScheduledEvent
    next_event_id,  \* EventSystem._next_event_id
    nobj,           \* number of ScheduledEvent objects created so far (object identity)
    nsched,         \* number of schedule() calls made by the client
    fireCount,      \* fireCount[s]: how often the callback of event object s was invoked
    cancelled,      \* the events a cancel_event call removed
    cleared,        \* the event objects a clear_all_events call removed
    quietTick,      \* {c} after tick(c), {} once schedule() has run since that call began
    entities,       \* WorldState._entities: id -> Entity
    time,           \* WorldState._time
    mode,           \* GameEngine.mode
    tickCalls,      \* number of WorldState.tick() calls made on the world
    current_tick,   \* TimeSystem._current_tick
    last            \* the most recent call

vars == <<events, next_event_id, nobj, nsched, fireCount, cancelled, cleared,
          quietTick, entities, time, mode, tickCalls, current_tick, last>>

eventVars == <<events, next_event_id, nobj, nsched, fireCount, cancelled, cleared,
               quietTick>>
worldVars == <<entities, time, mode, tickCalls>>
timeVars == <<current_tick>>

(***************************************************************************)
(* Bounds of the model.                                                    *)
(***************************************************************************)
MaxTick == 1
MaxSched == 2
MaxTime == 3
MaxRun == 2
MaxCoord == 2
MaxWaypoints == 2
MaxStart == 1
MaxAdvance == 3
MaxClock == 7
MaxMoves == 4

None == "None"

(***************************************************************************)
(*                              EventSystem                                *)
(***************************************************************************)

\* Ticks a client passes to schedule() and tick(), and a negative one.
Ticks == 0..MaxTick
NegativeTicks == {-1}

\* event_id arguments of schedule(): omitted, or caller-supplied.
CustomIds == {"event_0"}
EventIdArgs == {None} \cup CustomIds

\* f"event_{n}"
GenId(n) == "event_" \o ToString(n)

\* The callbacks clients schedule: "ok" returns a value, "fail" raises, and
\* "sched" is called with args (t, id) and schedules an "ok" event at tick t
\* with event_id id on the same EventSystem, returning schedule()'s result.
SchedArgs == {<<MaxTick, None>>}
CallbackArgs == {<<"ok", <<>>>>, <<"fail", <<>>>>} \cup {<<"sched", a>> : a \in SchedArgs}

\* ScheduledEvent(tick, callback, args, kwargs, event_id); seq is the identity
\* of the object (the order of creation), which Python's `is` compares.
ScheduledEvent(tick, callback, args, event_id, seq) ==
    [tick |-> tick, callback |-> callback, args |-> args,
     event_id |-> event_id, seq |-> seq]

\* The generated __eq__ of the dataclass: field by field, identity apart.
DataEq(e, f) ==
    /\ e.tick = f.tick
    /\ e.callback = f.callback
    /\ e.args = f.args
    /\ e.event_id = f.event_id

\* `e in lst` on a Python list: identity or __eq__ with some element.
InList(e, lst) == \E i \in 1..Len(lst) : lst[i].seq = e.seq \/ DataEq(lst[i], e)

\* The body of schedule() once the tick is accepted, on the dispatcher state
\* st = [events, next, nobj]; yields the new state and the returned id.
ScheduleBody(st, tick, callback, args, event_id) ==
    LET id == IF event_id = None THEN GenId(st.next) ELSE event_id
        nx == IF event_id = None THEN st.next + 1 ELSE st.next
        ev == ScheduledEvent(tick, callback, args, id, st.nobj + 1)
    IN  [st EXCEPT !.events = Append(st.events, ev),
                   !.next = nx,
                   !.nobj = st.nobj + 1,
                   !.ret = id]

\* Faulty variant of ScheduleChecked: a negative tick is clamped to 0 and
\* the event is stored.
ScheduleClamped(st, tick, callback, args, event_id) ==
    [raised |-> FALSE,
     st |-> ScheduleBody(st, IF tick < 0 THEN 0 ELSE tick, callback, args, event_id)]

\* schedule(): the check of the tick, then the body; a call that raises
\* leaves the dispatcher state st as it is.
ScheduleChecked(st, tick, callback, args, event_id) ==
    IF tick < 0
    THEN [raised |-> TRUE, st |-> st]
    ELSE [raised |-> FALSE, st |-> ScheduleBody(st, tick, callback, args, event_id)]

\* list.sort(key=lambda e: e.tick): a stable sort, here by insertion of each
\* element behind every element whose key is not larger.
RECURSIVE InsertByTick(_, _)
InsertByTick(e, s) ==
    IF s = <<>> THEN <<e>>
    ELSE IF Head(s).tick <= e.tick
         THEN <<Head(s)>> \o InsertByTick(e, Tail(s))
         ELSE <<e>> \o s

RECURSIVE SortByTick(_)
SortByTick(s) ==
    IF s = <<>> THEN <<>>
    ELSE InsertByTick(s[Len(s)], SortByTick(SubSeq(s, 1, Len(s) - 1)))

\* Faulty variants of EventsToFire: the sort forgotten; `<` for `<=`.
EventsToFireUnsorted(evs, c) == SelectSeq(evs, LAMBDA e : e.tick <= c)
EventsToFireStrict(evs, c) == SortByTick(SelectSeq(evs, LAMBDA e : e.tick < c))

\* events_to_fire of tick(): the due events, in list order, then sorted.
EventsToFire(evs, c) == SortByTick(SelectSeq(evs, LAMBDA e : e.tick <= c))

\* One iteration of the dispatch loop: invoke the callback of e inside
\* try/except and append (event_id, result or exception) to results.
Invoke(e, st) ==
    LET called == IF e.callback = "sched"
                  THEN ScheduleBody(st, e.args[1], "ok", <<>>, e.args[2])
                  ELSE st
        res == CASE e.callback = "ok" -> "value"
                 [] e.callback = "fail" -> "error"
                 [] e.callback = "sched" -> called.ret
    IN  [called EXCEPT !.results = Append(st.results, [event_id |-> e.event_id, result |-> res]),
                       !.fired = Append(st.fired, e)]

\* Faulty variant of Dispatch: no try/except, the loop ends at the first
\* callback that raises.
RECURSIVE DispatchUntilRaise(_, _)
DispatchUntilRaise(todo, st) ==
    IF todo = <<>> \/ Head(todo).callback = "fail" THEN st
    ELSE DispatchUntilRaise(Tail(todo), Invoke(Head(todo), st))

\* for event in events_to_fire: ...
RECURSIVE Dispatch(_, _)
Dispatch(todo, st) ==
    IF todo = <<>> THEN st ELSE Dispatch(Tail(todo), Invoke(Head(todo), st))

\* Faulty variant of RemoveFired: the fired events stay in the list.
RemoveFiredNever(evs, toFire) == evs

\* self._events = [e for e in self._events if e not in events_to_fire]
RemoveFired(evs, toFire) == SelectSeq(evs, LAMBDA e : ~InList(e, toFire))

\* The whole of tick(current_tick) on the dispatcher state.
TickBody(st, c) ==
    LET toFire == EventsToFire(st.events, c)
        after == Dispatch(toFire, st)
    IN  IF toFire = <<>> THEN st
        ELSE [after EXCEPT !.events = RemoveFired(after.events, toFire)]

\* The dispatcher state a call starts from.
Here == [events |-> events, next |-> next_event_id, nobj |-> nobj,
         ret |-> None, results |-> <<>>, fired |-> <<>>]

\* Number of times event object s occurs in the sequence of invoked events.
Occurrences(s, fired) == Cardinality({i \in 1..Len(fired) : fired[i].seq = s})

\* The (tick, event_id) pairs of get_pending_events().
Pending(evs) == [i \in 1..Len(evs) |-> [tick |-> evs[i].tick, event_id |-> evs[i].event_id]]

\* Index of the first event of evs whose event_id is id, 0 if there is none.
FirstWithId(evs, id) ==
    IF \E i \in 1..Len(evs) : evs[i].event_id = id
    THEN CHOOSE i \in 1..Len(evs) :
            /\ evs[i].event_id = id
            /\ \A j \in 1..(i - 1) : evs[j].event_id # id
    ELSE 0

\* Faulty variant of RemoveAt: the event is found but not removed.
RemoveAtNothing(evs, i) == evs

\* list.remove(x) for the x found at index i.
RemoveAt(evs, i) == SubSeq(evs, 1, i - 1) \o SubSeq(evs, i + 1, Len(evs))

\* Ids a client may try to cancel: one it supplied, which is also the first generated one.
CancelIds == CustomIds \cup {GenId(0)}

EventInit ==
    /\ events = <<>>
    /\ next_event_id = 0
    /\ nobj = 0
    /\ nsched = 0
    /\ fireCount = <<>>
    /\ cancelled = {}
    /\ cleared = {}
    /\ quietTick = {}

\* schedule(tick, callback, *args, event_id=...) with tick >= 0
Schedule ==
    \E t \in Ticks, cb \in CallbackArgs, id \in EventIdArgs :
        LET st == ScheduleBody(Here, t, cb[1], cb[2], id)
        IN  /\ nsched < MaxSched
            /\ events' = st.events
            /\ next_event_id' = st.next
            /\ nobj' = st.nobj
            /\ nsched' = nsched + 1
            /\ fireCount' = Append(fireCount, 0)
            /\ quietTick' = {}
            /\ last' = [op |-> "schedule", tick |-> t, callback |-> cb[1], args |-> cb[2],
                        event_id |-> id, raised |-> FALSE, ret |-> st.ret,
                        pre |-> events, preNext |-> next_event_id]
            /\ UNCHANGED <<cancelled, cleared, worldVars, timeVars>>

\* schedule(tick, callback) with tick < 0
ScheduleNegative ==
    \E t \in NegativeTicks :
        LET r == ScheduleChecked(Here, t, "ok", <<>>, None)
        IN  /\ t < 0
            /\ events' = r.st.events
            /\ next_event_id' = r.st.next
            /\ nobj' = r.st.nobj
            /\ fireCount' = [s \in 1..r.st.nobj |-> IF s <= nobj THEN fireCount[s] ELSE 0]
            /\ last' = [op |-> "schedule", tick |-> t, raised |-> r.raised,
                        ret |-> IF r.raised THEN None ELSE r.st.ret,
                        pre |-> events, preNext |-> next_event_id]
            /\ UNCHANGED <<nsched, cancelled, cleared, quietTick, worldVars, timeVars>>

\* tick(current_tick)
Tick ==
    \E c \in Ticks :
        LET st == TickBody(Here, c)
        IN  /\ events' = st.events
            /\ next_event_id' = st.next
            /\ nobj' = st.nobj
            /\ fireCount' = [s \in 1..st.nobj |->
                                (IF s <= nobj THEN fireCount[s] ELSE 0)
                                + Occurrences(s, st.fired)]
            /\ quietTick' = IF st.nobj = nobj THEN {c} ELSE {}
            /\ last' = [op |-> "tick", current_tick |-> c, raised |-> FALSE,
                        ret |-> st.results, fired |-> st.fired,
                        pre |-> events, preNext |-> next_event_id,
                        preQuiet |-> quietTick, preObjects |-> nobj]
            /\ UNCHANGED <<nsched, cancelled, cleared, worldVars, timeVars>>

\* cancel_event(event_id)
CancelEvent ==
    \E id \in CancelIds :
        LET i == FirstWithId(events, id)
        IN  /\ events' = IF i = 0 THEN events ELSE RemoveAt(events, i)
            /\ cancelled' = IF i = 0 THEN cancelled ELSE cancelled \cup {[seq |-> events[i].seq, tick |-> events[i].tick]}
            /\ last' = [op |-> "cancel_event", event_id |-> id, raised |-> FALSE,
                        ret |-> (i # 0), pre |-> events, preNext |-> next_event_id]
            /\ UNCHANGED <<next_event_id, nobj, nsched, fireCount, cleared, quietTick, worldVars, timeVars>>

\* get_pending_events()
GetPendingEvents ==
    /\ last' = [op |-> "get_pending_events", raised |-> FALSE, ret |-> Pending(events),
                pre |-> events, preNext |-> next_event_id]
    /\ UNCHANGED <<eventVars, worldVars, timeVars>>

\* clear_all_events()
ClearAllEvents ==
    /\ events' = <<>>
    /\ cleared' = cleared \cup {events[i].seq : i \in 1..Len(events)}
    /\ last' = [op |-> "clear_all_events", raised |-> FALSE, ret |-> Len(events),
                pre |-> events, preNext |-> next_event_id]
    /\ UNCHANGED <<next_event_id, nobj, nsched, fireCount, cancelled, quietTick, worldVars, timeVars>>

(***************************************************************************)
(*                              WorldState                                 *)
(***************************************************************************)

EntityIds == {"e1", "e2"}
Coords == 0..MaxCoord
Locations == {"dungeon", "dungeon2"}

\* Position(x, y, location_id)
Position(x, y, location_id) == [x |-> x, y |-> y, location_id |-> location_id]

\* Entity(id, position, properties)
Entity(id, position, properties) ==
    [id |-> id, position |-> position, properties |-> properties]

\* The registry is a dict, modelled as the list of its values in insertion
\* order; a lookup yields the index of the id, 0 when it is absent.
IndexOf(ents, id) ==
    IF \E i \in 1..Len(ents) : ents[i].id = id
    THEN CHOOSE i \in 1..Len(ents) : ents[i].id = id
    ELSE 0

\* entity_id in self._entities
HasEntity(ents, id) == IndexOf(ents, id) # 0

\* self._entities.get(entity_id): <<entity>>, or <<>> for None
GetEntityOf(ents, id) ==
    IF HasEntity(ents, id) THEN <<ents[IndexOf(ents, id)]>> ELSE <<>>

\* list(self._entities.keys())
AllEntityIds(ents) == [i \in 1..Len(ents) |-> ents[i].id]

\* Faulty variant of AddEntityBody: the duplicate check forgotten, the dict
\* assignment overwrites the registered entity.
AddEntityOverwrite(ents, e) ==
    IF HasEntity(ents, e.id)
    THEN [raised |-> FALSE, entities |-> [ents EXCEPT ![IndexOf(ents, e.id)] = e]]
    ELSE [raised |-> FALSE, entities |-> Append(ents, e)]

\* The body of add_entity(entity)
AddEntityBody(ents, e) ==
    IF HasEntity(ents, e.id)
    THEN [raised |-> TRUE, entities |-> ents]
    ELSE [raised |-> FALSE, entities |-> Append(ents, e)]

\* del self._entities[entity_id]
DeleteEntity(ents, id) ==
    SubSeq(ents, 1, IndexOf(ents, id) - 1) \o SubSeq(ents, IndexOf(ents, id) + 1, Len(ents))

\* Faulty variant of WorldTickBody: the counter is not advanced.
WorldTickStuck(t) == t

\* self._time += 1
WorldTickBody(t) == t + 1

\* Entity.to_dict()
EntityToDict(e) ==
    [id |-> e.id,
     position |-> [x |-> e.position.x, y |-> e.position.y,
                   location_id |-> e.position.location_id],
     properties |-> e.properties]

\* WorldState.to_dict()
WorldToDict(ents, t) ==
    [time |-> t, entities |-> [i \in 1..Len(ents) |-> EntityToDict(ents[i])]]

\* Entity.from_dict(data): the entity with the id, the position built from
\* data["position"] and the properties of the dictionary.
EntityFromDict(data) ==
    Entity(data.id,
           Position(data.position.x, data.position.y, data.position.location_id),
           data.properties)

\* Faulty variant of WorldFromDict: the time of the dictionary is not read.
RECURSIVE WorldFromDictNoTime(_)
WorldFromDictNoTime(data) ==
    IF data.entities = <<>>
    THEN [raised |-> FALSE, entities |-> <<>>, time |-> 0]
    ELSE LET n == Len(data.entities)
             world == WorldFromDictNoTime([data EXCEPT !.entities = SubSeq(@, 1, n - 1)])
             added == AddEntityBody(world.entities, EntityFromDict(data.entities[n]))
         IN  IF world.raised THEN world
             ELSE [raised |-> added.raised, entities |-> added.entities, time |-> 0]

\* WorldState.from_dict(data): a new world with the time of the dictionary,
\* its entities added one by one in list order; an add_entity that raises
\* ends the call.
RECURSIVE WorldFromDict(_)
WorldFromDict(data) ==
    IF data.entities = <<>>
    THEN [raised |-> FALSE, entities |-> <<>>, time |-> data.time]
    ELSE LET n == Len(data.entities)
             world == WorldFromDict([data EXCEPT !.entities = SubSeq(@, 1, n - 1)])
             added == AddEntityBody(world.entities, EntityFromDict(data.entities[n]))
         IN  IF world.raised THEN world
             ELSE [raised |-> added.raised, entities |-> added.entities,
                   time |-> world.time]

\* The entities clients add to the registry in the world specification.
SpawnPositions == {Position(0, 0, "dungeon"), Position(1, 1, "dungeon2")}
SpawnProperties == {[type |-> "player"], [type |-> "orc"]}
NewEntities ==
    {Entity(id, pos, props) : id \in EntityIds, pos \in SpawnPositions, props \in SpawnProperties}

GameModes == {"player", "headless"}

WorldInit ==
    /\ entities = << >>
    /\ time = 0
    /\ mode \in GameModes
    /\ tickCalls = 0

\* What a call on the world or the engine starts from.
WorldPre == [entities |-> entities, time |-> time, mode |-> mode]

\* add_entity(entity)
AddEntity ==
    \E e \in NewEntities :
        LET r == AddEntityBody(entities, e)
        IN  /\ entities' = r.entities
            /\ last' = [op |-> "add_entity", entity |-> e, raised |-> r.raised,
                        ret |-> None, pre |-> WorldPre]
            /\ UNCHANGED <<time, mode, tickCalls, eventVars, timeVars>>

\* remove_entity(entity_id)
RemoveEntity ==
    \E id \in EntityIds :
        /\ entities' = IF HasEntity(entities, id) THEN DeleteEntity(entities, id) ELSE entities
        /\ last' = [op |-> "remove_entity", entity_id |-> id, raised |-> FALSE,
                    ret |-> HasEntity(entities, id), pre |-> WorldPre]
        /\ UNCHANGED <<time, mode, tickCalls, eventVars, timeVars>>

\* get_entity(entity_id)
GetEntity ==
    \E id \in EntityIds :
        /\ last' = [op |-> "get_entity", entity_id |-> id, raised |-> FALSE,
                    ret |-> GetEntityOf(entities, id), pre |-> WorldPre]
        /\ UNCHANGED <<worldVars, eventVars, timeVars>>

\* get_all_entity_ids()
GetAllEntityIds ==
    /\ last' = [op |-> "get_all_entity_ids", raised |-> FALSE,
                ret |-> AllEntityIds(entities), pre |-> WorldPre]
    /\ UNCHANGED <<worldVars, eventVars, timeVars>>

\* WorldState.tick()
WorldTick ==
    /\ time < MaxTime
    /\ time' = WorldTickBody(time)
    /\ tickCalls' = tickCalls + 1
    /\ last' = [op |-> "world_tick", raised |-> FALSE, ret |-> time', pre |-> WorldPre]
    /\ UNCHANGED <<entities, mode, eventVars, timeVars>>

\* to_dict()
ToDict ==
    /\ last' = [op |-> "to_dict", raised |-> FALSE,
                ret |-> WorldToDict(entities, time), pre |-> WorldPre]
    /\ UNCHANGED <<worldVars, eventVars, timeVars>>

\* WorldState.from_dict(world.to_dict()): the result is a new world, the
\* world serialised is left as it is.
FromDict ==
    LET data == WorldToDict(entities, time)
        world == WorldFromDict(data)
    IN  /\ last' = [op |-> "from_dict", data |-> data, raised |-> world.raised,
                    ret |-> [entities |-> world.entities, time |-> world.time],
                    pre |-> WorldPre]
        /\ UNCHANGED <<worldVars, eventVars, timeVars>>

(***************************************************************************)
(*                             ActionHandler                               *)
(***************************************************************************)

\* Action(action_type, target_position, target_entity_id); an absent
\* target_position is <<>>, a given one <<position>>.
Action(action_type, target_position, target_entity_id) ==
    [action_type |-> action_type, target_position |-> target_position,
     target_entity_id |-> target_entity_id]

NoPosition == <<>>
MoveTo(pos) == Action("move", <<pos>>, None)
Attack(id) == Action("attack", NoPosition, id)
Idle == Action("idle", NoPosition, None)

\* Faulty variant of HandleMove: the entity is put on the target at once.
HandleMoveTeleport(ents, action, i) ==
    IF action.target_position = NoPosition
    THEN [ret |-> FALSE, entities |-> ents]
    ELSE [ret |-> TRUE,
          entities |-> [ents EXCEPT ![i].position.x = action.target_position[1].x,
                                    ![i].position.y = action.target_position[1].y]]

\* Faulty variant of HandleMove: an entity level with the target on an axis
\* still steps forward on it.
HandleMoveRestless(ents, action, i) ==
    IF action.target_position = NoPosition
    THEN [ret |-> FALSE, entities |-> ents]
    ELSE LET target == action.target_position[1]
             pos == ents[i].position
             dx == IF pos.x <= target.x THEN 1 ELSE -1
             dy == IF pos.y <= target.y THEN 1 ELSE -1
         IN  [ret |-> TRUE,
              entities |-> [ents EXCEPT ![i].position.x = pos.x + dx,
                                        ![i].position.y = pos.y + dy]]

\* Faulty variant of HandleMove: the entity steps and is also put into the
\* location of the target.
HandleMoveRelocates(ents, action, i) ==
    IF action.target_position = NoPosition
    THEN [ret |-> FALSE, entities |-> ents]
    ELSE LET target == action.target_position[1]
             pos == ents[i].position
             dx == IF pos.x < target.x THEN 1 ELSE IF pos.x > target.x THEN -1 ELSE 0
             dy == IF pos.y < target.y THEN 1 ELSE IF pos.y > target.y THEN -1 ELSE 0
         IN  [ret |-> TRUE,
              entities |-> [ents EXCEPT ![i].position.x = pos.x + dx,
                                        ![i].position.y = pos.y + dy,
                                        ![i].position.location_id = target.location_id]]

\* _handle_move(action, entity), the entity being ents[i]
HandleMove(ents, action, i) ==
    IF action.target_position = NoPosition
    THEN [ret |-> FALSE, entities |-> ents]
    ELSE LET target == action.target_position[1]
             pos == ents[i].position
             dx == IF pos.x < target.x THEN 1 ELSE IF pos.x > target.x THEN -1 ELSE 0
             dy == IF pos.y < target.y THEN 1 ELSE IF pos.y > target.y THEN -1 ELSE 0
         IN  [ret |-> TRUE,
              entities |-> [ents EXCEPT ![i].position.x = pos.x + dx,
                                        ![i].position.y = pos.y + dy]]

\* Faulty variant of HandleAttack: the target must also stand within one
\* unit of the attacker.
HandleAttackInReach(ents, action, i) ==
    IF action.target_entity_id = None
    THEN [ret |-> FALSE, entities |-> ents]
    ELSE IF ~HasEntity(ents, action.target_entity_id)
    THEN [ret |-> FALSE, entities |-> ents]
    ELSE LET target == ents[IndexOf(ents, action.target_entity_id)].position
             pos == ents[i].position
             far(a, b) == a - b > 1 \/ b - a > 1
         IN  IF pos.location_id # target.location_id
                \/ far(pos.x, target.x) \/ far(pos.y, target.y)
             THEN [ret |-> FALSE, entities |-> ents]
             ELSE [ret |-> TRUE, entities |-> ents]

\* _handle_attack(action, entity), the entity being ents[i]
HandleAttack(ents, action, i) ==
    IF action.target_entity_id = None
    THEN [ret |-> FALSE, entities |-> ents]
    ELSE IF ~HasEntity(ents, action.target_entity_id)
    THEN [ret |-> FALSE, entities |-> ents]
    ELSE IF ents[i].position.location_id
              # ents[IndexOf(ents, action.target_entity_id)].position.location_id
    THEN [ret |-> FALSE, entities |-> ents]
    ELSE [ret |-> TRUE, entities |-> ents]

\* _handle_idle(action, entity)
HandleIdle(ents, action, i) == [ret |-> TRUE, entities |-> ents]

\* Faulty variant of HandleActionBody: an unknown action type is treated as
\* "idle".
HandleActionLenient(ents, action, entity_id) ==
    IF ~HasEntity(ents, entity_id)
    THEN [ret |-> FALSE, entities |-> ents]
    ELSE IF action.action_type = "move" THEN HandleMove(ents, action, IndexOf(ents, entity_id))
    ELSE IF action.action_type = "attack" THEN HandleAttack(ents, action, IndexOf(ents, entity_id))
    ELSE HandleIdle(ents, action, IndexOf(ents, entity_id))

\* handle_action(action, entity_id)
HandleActionBody(ents, action, entity_id) ==
    IF ~HasEntity(ents, entity_id)
    THEN [ret |-> FALSE, entities |-> ents]
    ELSE IF action.action_type = "move" THEN HandleMove(ents, action, IndexOf(ents, entity_id))
    ELSE IF action.action_type = "attack" THEN HandleAttack(ents, action, IndexOf(ents, entity_id))
    ELSE IF action.action_type = "idle" THEN HandleIdle(ents, action, IndexOf(ents, entity_id))
    ELSE [ret |-> FALSE, entities |-> ents]

\* The actions handed to the handler.
AllPositions == {Position(x, y, loc) : x \in Coords, y \in Coords, loc \in Locations}
Actions ==
    {MoveTo(pos) : pos \in AllPositions}
    \cup {Action("move", NoPosition, None)}
    \cup {Attack(id) : id \in EntityIds \cup {None}}
    \cup {Idle, Action("dance", NoPosition, None)}

\* The entity_id arguments: the acting entity "e1", and an id never registered.
ActorIds == {"e1", "nobody"}

\* handle_action(action, entity_id)
HandleAction ==
    \E action \in Actions, id \in ActorIds :
        LET r == HandleActionBody(entities, action, id)
        IN  /\ entities' = r.entities
            /\ last' = [op |-> "handle_action", action |-> action, entity_id |-> id,
                        raised |-> FALSE, ret |-> r.ret, pre |-> WorldPre]
            /\ UNCHANGED <<time, mode, tickCalls, eventVars, timeVars>>

\* The run of successive handle_action calls with one move action for one
\* entity that a call with this action continues or begins: the position
\* the entity had when the run began, and the number k of calls so far.
Streak(action, id) ==
    IF last.op = "handle_action" /\ last.action = action /\ last.entity_id = id
    THEN [start |-> last.streak.start, k |-> last.streak.k + 1]
    ELSE [start |-> entities[IndexOf(entities, id)].position, k |-> 1]

\* handle_action(MoveTo(target), "e1"), called again and again by a client
\* that walks the entity towards targets of its choice.
MoveAgain ==
    \E target \in AllPositions :
        LET action == MoveTo(target)
            r == HandleActionBody(entities, action, "e1")
            streak == Streak(action, "e1")
        IN  /\ streak.k <= MaxMoves
            /\ entities' = r.entities
            /\ last' = [op |-> "handle_action", action |-> action, entity_id |-> "e1",
                        raised |-> FALSE, ret |-> r.ret, pre |-> WorldPre,
                        streak |-> streak]
            /\ UNCHANGED <<time, mode, tickCalls, eventVars, timeVars>>

(***************************************************************************)
(*                               GameEngine                                *)
(***************************************************************************)

\* step(action) without an action: None is <<>>, an attached action <<action>>.
NoAction == <<>>

\* Faulty variant of EngineStep: in PLAYER mode the attached action is
\* applied to the first registered entity before the tick.
EngineStepApplies(w, action) ==
    LET ents == IF w.mode = "player" /\ action # NoAction /\ w.entities # <<>>
                THEN HandleActionBody(w.entities, action[1], w.entities[1].id).entities
                ELSE w.entities
    IN  [w EXCEPT !.entities = ents, !.time = WorldTickBody(w.time)]

\* step(action) on the engine state w = [entities, time, mode]: the action is
\* logged in PLAYER mode, the world ticks once.
EngineStep(w, action) == [w EXCEPT !.time = WorldTickBody(w.time)]

\* Faulty variant of RunHeadlessLoop: range(ticks + 1).
RECURSIVE RunHeadlessOneMore(_, _)
RunHeadlessOneMore(w, n) ==
    IF n < 0 THEN w
    ELSE RunHeadlessOneMore([w EXCEPT !.time = WorldTickBody(w.time)], n - 1)

\* for i in range(ticks): self.world.tick()
RECURSIVE RunHeadlessLoop(_, _)
RunHeadlessLoop(w, n) ==
    IF n <= 0 THEN w
    ELSE RunHeadlessLoop([w EXCEPT !.time = WorldTickBody(w.time)], n - 1)

\* Faulty variant of RunHeadlessChecked: the world ticks once before the
\* sign of ticks is looked at.
RunHeadlessLateCheck(w, n) ==
    IF n < 0
    THEN [raised |-> TRUE, w |-> [w EXCEPT !.time = WorldTickBody(w.time)]]
    ELSE [raised |-> FALSE, w |-> RunHeadlessLoop(w, n)]

\* run_headless(ticks): the check of ticks, then the loop; a call that
\* raises leaves the engine state w as it is.
RunHeadlessChecked(w, n) ==
    IF n < 0
    THEN [raised |-> TRUE, w |-> w]
    ELSE [raised |-> FALSE, w |-> RunHeadlessLoop(w, n)]

\* Faulty variant of SetModeBody: the engine flips to the other mode
\* whatever mode is asked for.
SetModeFlips(current, m) == IF current = "player" THEN "headless" ELSE "player"

\* set_mode(mode) on an engine whose mode is current: the new mode
SetModeBody(current, m) == IF current # m THEN m ELSE current

\* The actions attached to step().
StepActions ==
    {<<MoveTo(Position(MaxCoord, MaxCoord, "dungeon"))>>, <<Attack("e2")>>, <<Idle>>}

RunLengths == 0..MaxRun
NegativeRunLengths == {-1}

\* step(action)
Step ==
    \E action \in {NoAction} \cup StepActions :
        LET w == EngineStep(WorldPre, action)
        IN  /\ time < MaxTime
            /\ entities' = w.entities
            /\ time' = w.time
            /\ mode' = w.mode
            /\ tickCalls' = tickCalls + 1
            /\ last' = [op |-> "step", action |-> action, raised |-> FALSE,
                        ret |-> w.time, pre |-> WorldPre]
            /\ UNCHANGED <<eventVars, timeVars>>

\* run_headless(ticks) with ticks >= 0
RunHeadless ==
    \E n \in RunLengths :
        LET w == RunHeadlessLoop(WorldPre, n)
        IN  /\ time + n <= MaxTime
            /\ entities' = w.entities
            /\ time' = w.time
            /\ mode' = w.mode
            /\ tickCalls' = tickCalls + n
            /\ last' = [op |-> "run_headless", ticks |-> n, raised |-> FALSE,
                        ret |-> w.time, pre |-> WorldPre]
            /\ UNCHANGED <<eventVars, timeVars>>

\* run_headless(ticks) with ticks < 0
RunHeadlessNegative ==
    \E n \in NegativeRunLengths :
        LET r == RunHeadlessChecked(WorldPre, n)
        IN  /\ n < 0
            /\ entities' = r.w.entities
            /\ time' = r.w.time
            /\ mode' = r.w.mode
            /\ tickCalls' = tickCalls + (r.w.time - time)
            /\ last' = [op |-> "run_headless", ticks |-> n, raised |-> r.raised,
                        ret |-> None, pre |-> WorldPre]
            /\ UNCHANGED <<eventVars, timeVars>>

\* set_mode(mode)
SetMode ==
    \E m \in GameModes :
        /\ mode' = SetModeBody(mode, m)
        /\ last' = [op |-> "set_mode", mode |-> m, raised |-> FALSE,
                    ret |-> None, pre |-> WorldPre]
        /\ UNCHANGED <<entities, time, tickCalls, eventVars, timeVars>>

\* get_current_time()
GetCurrentTime ==
    /\ last' = [op |-> "get_current_time", raised |-> FALSE, ret |-> time, pre |-> WorldPre]
    /\ UNCHANGED <<worldVars, eventVars, timeVars>>

(***************************************************************************)
(*                         NPC behaviours (npc_ai)                         *)
(***************************************************************************)

\* npc.properties.get(key, default)
Get(properties, key, default) ==
    IF key \in DOMAIN properties THEN properties[key] ELSE default

\* npc.properties[key] = value
Put(properties, key, value) ==
    [k \in DOMAIN properties \cup {key} |-> IF k = key THEN value ELSE properties[k]]

DefaultDetectionRange == 5
DefaultHostileTo == <<"player">>

\* abs(a - b)
Abs(d) == IF d < 0 THEN -d ELSE d

\* x in list
InSeq(x, list) == \E k \in 1..Len(list) : list[k] = x

\* idle_behavior(npc, world), the NPC being ents[i]; the result carries the
\* returned action and the entities after the call.
IdleBehaviorBody(ents, i) == [action |-> Idle, entities |-> ents]

\* Faulty variant of PatrolBehaviorBody: on arrival the index advances, but
\* the returned action still targets the waypoint just reached.
PatrolBehaviorLate(ents, i) ==
    LET npc == ents[i]
        waypoints == Get(npc.properties, "waypoints", <<>>)
    IN  IF waypoints = <<>>
        THEN [action |-> Idle, waypoint_index |-> <<>>, entities |-> ents]
        ELSE LET current_index == Get(npc.properties, "current_waypoint_index", 0)
                 target_waypoint == waypoints[current_index + 1]
                 next_index == (current_index + 1) % Len(waypoints)
             IN  IF npc.position = target_waypoint
                 THEN [action |-> MoveTo(target_waypoint),
                       waypoint_index |-> <<next_index>>,
                       entities |-> [ents EXCEPT ![i].properties =
                                        Put(@, "current_waypoint_index", next_index)]]
                 ELSE [action |-> MoveTo(target_waypoint),
                       waypoint_index |-> <<current_index>>,
                       entities |-> ents]

\* Faulty variant of PatrolBehaviorBody: the behaviour also takes the step
\* towards the waypoint it returns.
PatrolBehaviorWalks(ents, i) ==
    LET npc == ents[i]
        waypoints == Get(npc.properties, "waypoints", <<>>)
    IN  IF waypoints = <<>>
        THEN [action |-> Idle, waypoint_index |-> <<>>, entities |-> ents]
        ELSE LET current_index == Get(npc.properties, "current_waypoint_index", 0)
                 target_waypoint == waypoints[current_index + 1]
                 next_index == (current_index + 1) % Len(waypoints)
                 arrived == npc.position = target_waypoint
                 target == IF arrived THEN waypoints[next_index + 1] ELSE target_waypoint
                 stored == IF arrived
                           THEN [ents EXCEPT ![i].properties =
                                    Put(@, "current_waypoint_index", next_index)]
                           ELSE ents
             IN  [action |-> MoveTo(target),
                  waypoint_index |-> <<IF arrived THEN next_index ELSE current_index>>,
                  entities |-> [stored EXCEPT
                      ![i].position.x = IF @ < target.x THEN @ + 1
                                        ELSE IF @ > target.x THEN @ - 1 ELSE @,
                      ![i].position.y = IF @ < target.y THEN @ + 1
                                        ELSE IF @ > target.y THEN @ - 1 ELSE @]]

\* Faulty variant of PatrolBehaviorBody: an NPC that has arrived keeps its
\* index and its target.
PatrolBehaviorStays(ents, i) ==
    LET npc == ents[i]
        waypoints == Get(npc.properties, "waypoints", <<>>)
    IN  IF waypoints = <<>>
        THEN [action |-> Idle, waypoint_index |-> <<>>, entities |-> ents]
        ELSE LET current_index == Get(npc.properties, "current_waypoint_index", 0)
             IN  [action |-> MoveTo(waypoints[current_index + 1]),
                  waypoint_index |-> <<current_index>>,
                  entities |-> ents]

\* Faulty variant of PatrolBehaviorBody: the stored index counts the
\* waypoints reached and is reduced modulo the length of the route only
\* when a waypoint is read.
PatrolBehaviorCounts(ents, i) ==
    LET npc == ents[i]
        waypoints == Get(npc.properties, "waypoints", <<>>)
    IN  IF waypoints = <<>>
        THEN [action |-> Idle, waypoint_index |-> <<>>, entities |-> ents]
        ELSE LET current_index == Get(npc.properties, "current_waypoint_index", 0)
                 target_waypoint == waypoints[(current_index % Len(waypoints)) + 1]
                 next_index == current_index + 1
             IN  IF npc.position = target_waypoint
                 THEN [action |-> MoveTo(waypoints[(next_index % Len(waypoints)) + 1]),
                       waypoint_index |-> <<next_index>>,
                       entities |-> [ents EXCEPT ![i].properties =
                                        Put(@, "current_waypoint_index", next_index)]]
                 ELSE [action |-> MoveTo(target_waypoint),
                       waypoint_index |-> <<current_index>>,
                       entities |-> ents]

\* patrol_behavior(npc, world), the NPC being ents[i]; a Python list index k
\* is the TLA+ index k + 1. waypoint_index is the entry of the action's data.
PatrolBehaviorBody(ents, i) ==
    LET npc == ents[i]
        waypoints == Get(npc.properties, "waypoints", <<>>)
    IN  IF waypoints = <<>>
        THEN [action |-> Idle, waypoint_index |-> <<>>, entities |-> ents]
        ELSE LET current_index == Get(npc.properties, "current_waypoint_index", 0)
                 target_waypoint == waypoints[current_index + 1]
                 next_index == (current_index + 1) % Len(waypoints)
             IN  IF /\ npc.position.x = target_waypoint.x
                    /\ npc.position.y = target_waypoint.y
                    /\ npc.position.location_id = target_waypoint.location_id
                 THEN [action |-> MoveTo(waypoints[next_index + 1]),
                       waypoint_index |-> <<next_index>>,
                       entities |-> [ents EXCEPT ![i].properties =
                                        Put(@, "current_waypoint_index", next_index)]]
                 ELSE [action |-> MoveTo(target_waypoint),
                       waypoint_index |-> <<current_index>>,
                       entities |-> ents]

\* Faulty variant of Closer: a later entity at the same distance replaces
\* the one found first, and the detection range is not applied.
CloserOrEqual(distance, detection_range, closest) ==
    closest = <<>> \/ distance <= closest[1].distance

\* distance <= detection_range and distance < closest_distance, the closest
\* target so far being <<>> (None, at distance infinity) or <<[id, distance]>>
Closer(distance, detection_range, closest) ==
    /\ distance <= detection_range
    /\ (closest = <<>> \/ distance < closest[1].distance)

\* The scan loop of attack_on_sight_behavior over the registry from index k
\* on, in the order of get_all_entity_ids().
RECURSIVE ScanFrom(_, _, _, _, _, _)
ScanFrom(ents, i, k, detection_range, hostile_to, closest) ==
    IF k > Len(ents) THEN closest
    ELSE LET npc == ents[i]
             entity == ents[k]
             distance == Abs(entity.position.x - npc.position.x)
                         + Abs(entity.position.y - npc.position.y)
             found ==
                 IF entity.id = npc.id THEN closest
                 ELSE IF entity.position.location_id # npc.position.location_id THEN closest
                 ELSE IF ~InSeq(Get(entity.properties, "type", ""), hostile_to) THEN closest
                 ELSE IF Closer(distance, detection_range, closest)
                      THEN <<[id |-> entity.id, distance |-> distance]>>
                      ELSE closest
         IN  ScanFrom(ents, i, k + 1, detection_range, hostile_to, found)

\* Faulty variant of AttackOnSightBody: the first entity of a hostile type
\* in the registry is attacked, wherever it is.
AttackOnSightAnywhere(ents, i) ==
    LET hostile_to == Get(ents[i].properties, "hostile_to", DefaultHostileTo)
        seen == {k \in 1..Len(ents) :
                    /\ ents[k].id # ents[i].id
                    /\ InSeq(Get(ents[k].properties, "type", ""), hostile_to)}
    IN  [action |-> IF seen # {}
                    THEN Attack(ents[CHOOSE k \in seen : \A j \in seen : k <= j].id)
                    ELSE Idle,
         entities |-> ents]

\* attack_on_sight_behavior(npc, world), the NPC being ents[i]
AttackOnSightBody(ents, i) ==
    LET detection_range == Get(ents[i].properties, "detection_range", DefaultDetectionRange)
        hostile_to == Get(ents[i].properties, "hostile_to", DefaultHostileTo)
        closest_target == ScanFrom(ents, i, 1, detection_range, hostile_to, <<>>)
    IN  [action |-> IF closest_target # <<>> THEN Attack(closest_target[1].id) ELSE Idle,
         entities |-> ents]

\* Faulty variant of ApplyActionBody: only the x coordinate is moved.
ApplyActionXOnly(ents, action, i) ==
    IF action.action_type = "move" /\ action.target_position # NoPosition
    THEN LET target == action.target_position[1]
             pos == ents[i].position
             dx == IF pos.x < target.x THEN 1 ELSE IF pos.x > target.x THEN -1 ELSE 0
         IN  [ents EXCEPT ![i].position.x = pos.x + dx]
    ELSE ents

\* apply_action(action, npc, world), the NPC being ents[i]
ApplyActionBody(ents, action, i) ==
    IF action.action_type = "move" /\ action.target_position # NoPosition
    THEN LET target == action.target_position[1]
             pos == ents[i].position
             dx == IF pos.x < target.x THEN 1 ELSE IF pos.x > target.x THEN -1 ELSE 0
             dy == IF pos.y < target.y THEN 1 ELSE IF pos.y > target.y THEN -1 ELSE 0
         IN  [ents EXCEPT ![i].position.x = pos.x + dx,
                          ![i].position.y = pos.y + dy]
    ELSE ents

\* The NPC the behaviours are called for; it is registered in the world.
NpcId == "npc"
Npc == IndexOf(entities, NpcId)

\* idle_behavior(npc, world)
IdleBehavior ==
    LET r == IdleBehaviorBody(entities, Npc)
    IN  /\ entities' = r.entities
        /\ last' = [op |-> "idle_behavior", raised |-> FALSE, ret |-> r.action,
                    pre |-> WorldPre]
        /\ UNCHANGED <<time, mode, tickCalls, eventVars, timeVars>>

\* patrol_behavior(npc, world)
PatrolBehavior ==
    LET r == PatrolBehaviorBody(entities, Npc)
    IN  /\ entities' = r.entities
        /\ last' = [op |-> "patrol_behavior", raised |-> FALSE, ret |-> r.action,
                    waypoint_index |-> r.waypoint_index, pre |-> WorldPre]
        /\ UNCHANGED <<time, mode, tickCalls, eventVars, timeVars>>

\* attack_on_sight_behavior(npc, world)
AttackOnSightBehavior ==
    LET r == AttackOnSightBody(entities, Npc)
    IN  /\ entities' = r.entities
        /\ last' = [op |-> "attack_on_sight_behavior", raised |-> FALSE, ret |-> r.action,
                    pre |-> WorldPre]
        /\ UNCHANGED <<time, mode, tickCalls, eventVars, timeVars>>

\* apply_action(action, npc, world)
ApplyAction ==
    \E action \in Actions :
        /\ entities' = ApplyActionBody(entities, action, Npc)
        /\ last' = [op |-> "apply_action", action |-> action, raised |-> FALSE,
                    ret |-> None, pre |-> WorldPre]
        /\ UNCHANGED <<time, mode, tickCalls, eventVars, timeVars>>

\* The behaviour functions.
Behaviours == {"idle_behavior", "patrol_behavior", "attack_on_sight_behavior"}

\* handle_action(action, npc.id) of an ActionHandler on the NPC's world,
\* the action being one of `actions`; `behaviour` names the behaviour call
\* made just before, if the action handed over is the one it returned.
HandleNpcAction(actions) ==
    \E action \in actions :
        LET r == HandleActionBody(entities, action, NpcId)
        IN  /\ entities' = r.entities
            /\ last' = [op |-> "handle_action", action |-> action, entity_id |-> NpcId,
                        raised |-> FALSE, ret |-> r.ret, pre |-> WorldPre,
                        behaviour |-> IF last.op \in Behaviours /\ last.ret = action
                                      THEN last.op ELSE None]
            /\ UNCHANGED <<time, mode, tickCalls, eventVars, timeVars>>

\* action = behaviour(npc, world); handler.handle_action(action, npc.id)
HandleReturnedAction ==
    /\ last.op \in Behaviours
    /\ HandleNpcAction({last.ret})

\* handler.handle_action(action, npc.id) with an action of the caller's
HandleAnyAction == HandleNpcAction(Actions)

(***************************************************************************)
(*                              TimeSystem                                 *)
(***************************************************************************)

StartingTicks == 0..MaxStart
AdvanceTicks == 0..MaxAdvance
NegativeAdvanceTicks == {-1}

\* Faulty variant of AdvanceBody: the argument is stored as the new tick
\* instead of being added.
AdvanceSets(current, ticks) ==
    IF ticks < 0
    THEN [raised |-> TRUE, current_tick |-> current, ret |-> <<>>]
    ELSE [raised |-> FALSE, current_tick |-> ticks, ret |-> <<ticks>>]

\* Faulty variant of AdvanceBody: the sign of the argument is not checked.
AdvanceUnchecked(current, ticks) ==
    [raised |-> FALSE, current_tick |-> current + ticks, ret |-> <<current + ticks>>]

\* advance(ticks) on a TimeSystem whose _current_tick is current; ret is
\* <<>> when the call raises, <<value>> when it returns.
AdvanceBody(current, ticks) ==
    IF ticks < 0
    THEN [raised |-> TRUE, current_tick |-> current, ret |-> <<>>]
    ELSE [raised |-> FALSE, current_tick |-> current + ticks, ret |-> <<current + ticks>>]

\* The advance call made just before the one recorded in last, when there
\* was one and it returned: <<[start, ticks]>>, else <<>>.
Previous ==
    IF last.op = "advance" /\ ~last.raised
    THEN <<[start |-> last.pre, ticks |-> last.ticks]>>
    ELSE <<>>

\* advance(ticks) with ticks >= 0
Advance ==
    \E ticks \in AdvanceTicks :
        LET r == AdvanceBody(current_tick, ticks)
        IN  /\ current_tick + ticks <= MaxClock
            /\ current_tick' = r.current_tick
            /\ last' = [op |-> "advance", ticks |-> ticks, raised |-> r.raised,
                        ret |-> r.ret, pre |-> current_tick, previous |-> Previous]
            /\ UNCHANGED <<eventVars, worldVars>>

\* advance(ticks) with ticks < 0
AdvanceNegative ==
    \E ticks \in NegativeAdvanceTicks :
        LET r == AdvanceBody(current_tick, ticks)
        IN  /\ current_tick' = r.current_tick
            /\ last' = [op |-> "advance", ticks |-> ticks, raised |-> r.raised,
                        ret |-> r.ret, pre |-> current_tick, previous |-> Previous]
            /\ UNCHANGED <<eventVars, worldVars>>

\* TimeSystem(starting_tick)
TimeInit == current_tick \in StartingTicks

\* The leg of the patrol the NPC is on: <<>> until a patrol_behavior call
\* has found the NPC on its current waypoint, then <<[from, to, cycles]>>:
\* the waypoint left, the waypoint headed for and the number of
\* apply_action calls made since that call.
LegAfterPatrol(r) ==
    IF entities[Npc].position
          = entities[Npc].properties.waypoints[
                Get(entities[Npc].properties, "current_waypoint_index", 0) + 1]
    THEN <<[from |-> entities[Npc].position, to |-> r.action.target_position[1],
            cycles |-> 0]>>
    ELSE IF "leg" \in DOMAIN last THEN last.leg ELSE <<>>
LegAfterApply ==
    IF last.leg = <<>> THEN <<>>
    ELSE <<[last.leg[1] EXCEPT !.cycles = IF @ > MaxMoves THEN @ ELSE @ + 1]>>

\* The first half of a simulation cycle: action = patrol_behavior(npc, world)
CyclePatrol ==
    LET r == PatrolBehaviorBody(entities, Npc)
    IN  /\ last.op # "patrol_behavior"
        /\ entities' = r.entities
        /\ last' = [op |-> "patrol_behavior", raised |-> FALSE, ret |-> r.action,
                    waypoint_index |-> r.waypoint_index, pre |-> WorldPre,
                    leg |-> LegAfterPatrol(r)]
        /\ UNCHANGED <<time, mode, tickCalls, eventVars, timeVars>>

\* The second half: apply_action(action, npc, world) with that action
CycleApply ==
    /\ last.op = "patrol_behavior"
    /\ entities' = ApplyActionBody(entities, last.ret, Npc)
    /\ last' = [op |-> "apply_action", action |-> last.ret, raised |-> FALSE,
                pre |-> WorldPre, leg |-> LegAfterApply]
    /\ UNCHANGED <<time, mode, tickCalls, eventVars, timeVars>>

NoCall == [op |-> "init", raised |-> FALSE]

EventSystemInit ==
    /\ EventInit
    /\ entities = << >>
    /\ time = 0
    /\ mode = "player"
    /\ tickCalls = 0
    /\ current_tick = 0
    /\ last = NoCall

EventSystemNext ==
    \/ Schedule
    \/ ScheduleNegative
    \/ Tick
    \/ CancelEvent
    \/ GetPendingEvents
    \/ ClearAllEvents

\* One EventSystem driven by a client through its public methods.
EventSystemSpec == EventSystemInit /\ [][EventSystemNext]_vars

(***************************************************************************)
(*      WorldState driven directly and through a GameEngine                *)
(***************************************************************************)

WorldSpecInit ==
    /\ EventInit
    /\ WorldInit
    /\ current_tick = 0
    /\ last = NoCall

WorldSpecNext ==
    \/ AddEntity
    \/ RemoveEntity
    \/ GetEntity
    \/ GetAllEntityIds
    \/ WorldTick
    \/ ToDict
    \/ FromDict
    \/ Step
    \/ RunHeadless
    \/ RunHeadlessNegative
    \/ SetMode
    \/ GetCurrentTime

\* One world, created empty, used directly and through the engine holding it.
WorldSpec == WorldSpecInit /\ [][WorldSpecNext]_vars

(***************************************************************************)
(*      ActionHandler on a world populated with one or two entities        *)
(***************************************************************************)

\* The worlds the handler is given: "e1" registered anywhere, "e2" absent or
\* registered on a corner of either location.
CornerPositions == {Position(c, c, loc) : c \in {0, MaxCoord}, loc \in Locations}
PopulatedWorlds ==
    {<<Entity("e1", p, [type |-> "player"])>> : p \in AllPositions}
    \cup {<<Entity("e1", p, [type |-> "player"]), Entity("e2", q, [type |-> "orc"])>> :
             p \in AllPositions, q \in CornerPositions}

ActionSpecInit ==
    /\ EventInit
    /\ entities \in PopulatedWorlds
    /\ time = 0
    /\ mode = "player"
    /\ tickCalls = 0
    /\ current_tick = 0
    /\ last = NoCall

ActionSpecNext == HandleAction

\* An ActionHandler applying actions to the entities of its world.
ActionSpec == ActionSpecInit /\ [][ActionSpecNext]_vars

(***************************************************************************)
(*       ActionHandler moving one entity by successive move actions        *)
(***************************************************************************)

MoveSpecInit == ActionSpecInit

MoveSpecNext == MoveAgain

\* An ActionHandler given move actions for the entity "e1", one after another.
MoveSpec == MoveSpecInit /\ [][MoveSpecNext]_vars

(***************************************************************************)
(*        NPC behaviours called for an NPC registered in a world           *)
(***************************************************************************)

\* The patrol routes: up to MaxWaypoints waypoints, repetitions included.
WaypointPositions == {Position(0, 0, "dungeon"), Position(MaxCoord, 1, "dungeon")}
Routes == UNION {[1..n -> WaypointPositions] : n \in 0..MaxWaypoints}

\* Properties of a patrolling NPC: no route, a route with no index stored
\* yet, or a route with an index into it.
PatrolProperties ==
    {[type |-> "guard"]}
    \cup {[type |-> "guard", waypoints |-> r] : r \in Routes}
    \cup UNION {{[type |-> "guard", waypoints |-> r, current_waypoint_index |-> k] :
                    k \in 0..(Len(r) - 1)} : r \in Routes}

\* Properties of an NPC that attacks on sight: the defaults, a short
\* detection range, another list of hostile types.
SightProperties ==
    {[type |-> "orc"],
     [type |-> "orc", detection_range |-> 1],
     [type |-> "orc", hostile_to |-> <<"orc">>],
     [type |-> "orc", detection_range |-> 1, hostile_to |-> <<"player", "orc">>]}

NpcStarts == {Position(0, 0, loc) : loc \in Locations}

\* The entities around an NPC that attacks on sight, as the registry part
\* before the NPC and the part after it.
Before ==
    {<<>>} \cup
    {<<Entity("e1", p, [type |-> "player"])>> :
        p \in {Position(1, 0, "dungeon"), Position(MaxCoord, MaxCoord, "dungeon"),
               Position(0, 0, "dungeon2")}}
After ==
    {<<>>} \cup
    {<<Entity("e2", p, [type |-> t])>> :
        p \in {Position(0, 1, "dungeon"), Position(MaxCoord, 0, "dungeon")},
        t \in {"player", "orc"}}

NpcWorlds ==
    {<<Entity("e1", Position(1, 0, "dungeon"), [type |-> "player"]),
       Entity(NpcId, p, props)>> : p \in NpcStarts, props \in PatrolProperties}
    \cup {b \o <<Entity(NpcId, p, props)>> \o a :
             b \in Before, a \in After, p \in NpcStarts, props \in SightProperties}

NpcSpecInit ==
    /\ EventInit
    /\ entities \in NpcWorlds
    /\ time = 0
    /\ mode = "headless"
    /\ tickCalls = 0
    /\ current_tick = 0
    /\ last = NoCall

NpcSpecNext ==
    \/ IdleBehavior
    \/ PatrolBehavior
    \/ AttackOnSightBehavior
    \/ ApplyAction
    \/ HandleReturnedAction

\* The behaviour functions, apply_action and handle_action called for one
\* NPC.
NpcSpec == NpcSpecInit /\ [][NpcSpecNext]_vars

(***************************************************************************)
(*   A patrolling NPC under patrol_behavior, apply_action, handle_action   *)
(***************************************************************************)

\* An NPC alone in its world, in the location of the waypoints, with a
\* non-empty route, its index absent or within the route.
RouteWorlds ==
    {<<Entity(NpcId, Position(0, 0, "dungeon"), props)>> :
        props \in {pr \in PatrolProperties : Get(pr, "waypoints", <<>>) # <<>>}}

RouteSpecInit ==
    /\ EventInit
    /\ entities \in RouteWorlds
    /\ time = 0
    /\ mode = "headless"
    /\ tickCalls = 0
    /\ current_tick = 0
    /\ last = NoCall

RouteSpecNext ==
    \/ PatrolBehavior
    \/ ApplyAction
    \/ HandleAnyAction

\* patrol_behavior, apply_action and handle_action called for the NPC in
\* any order, with any action.
RouteSpec == RouteSpecInit /\ [][RouteSpecNext]_vars

(***************************************************************************)
(*     A patrolling NPC driven by the cycle patrol_behavior, apply_action  *)
(***************************************************************************)

\* NPCs with a route, all of whose waypoints lie in the NPC's location.
PatrolWorlds ==
    {<<Entity(NpcId, Position(x, y, "dungeon"), props)>> :
        x \in Coords, y \in Coords,
        props \in {pr \in PatrolProperties : Get(pr, "waypoints", <<>>) # <<>>}}

PatrolSpecInit ==
    /\ EventInit
    /\ entities \in PatrolWorlds
    /\ time = 0
    /\ mode = "headless"
    /\ tickCalls = 0
    /\ current_tick = 0
    /\ last = NoCall

PatrolSpecNext ==
    \/ CyclePatrol
    \/ CycleApply

\* The cycle repeated forever: every step of it changes the name of the
\* last call, so no step of the cycle is a stuttering step.
cycleVars == <<entities, last.op>>
PatrolSpec == PatrolSpecInit /\ [][PatrolSpecNext]_vars /\ WF_cycleVars(PatrolSpecNext)

(***************************************************************************)
(*                    TimeSystem advanced by a client                      *)
(***************************************************************************)

TimeSpecInit ==
    /\ EventInit
    /\ entities = << >>
    /\ time = 0
    /\ mode = "player"
    /\ tickCalls = 0
    /\ TimeInit
    /\ last = NoCall

TimeSpecNext ==
    \/ Advance
    \/ AdvanceNegative

\* One TimeSystem, created at a starting tick, on which advance is called.
TimeSpec == TimeSpecInit /\ [][TimeSpecNext]_vars

(***************************************************************************)
(*                     Properties of the EventSystem                       *)
(***************************************************************************)

\* The event objects of a list, by identity.
SeqsOf(evs) == {evs[i].seq : i \in 1..Len(evs)}

\* The events of evs that are due at tick c.
DueIn(evs, c) == {evs[i].seq : i \in {j \in 1..Len(evs) : evs[j].tick <= c}}

C2_FiresExactlyDue ==
    last.op = "tick" =>
        /\ SeqsOf(last.fired) = DueIn(last.pre, last.current_tick)
        /\ Len(last.fired) = Cardinality(DueIn(last.pre, last.current_tick))
        /\ \A i \in 1..Len(last.fired) : last.fired[i].tick <= last.current_tick
        /\ SeqsOf(last.fired) \cap SeqsOf(events) = {}
        /\ \A i \in 1..Len(last.pre) :
              last.pre[i].tick > last.current_tick =>
                  \E j \in 1..Len(events) : events[j] = last.pre[i]

\* C2 witness: a tick(c) call that found an event due exactly at c and an
\* event not yet due.
C2_Witness ==
    /\ last.op = "tick"
    /\ \E i \in 1..Len(last.fired) : last.fired[i].tick = last.current_tick
    /\ \E i \in 1..Len(last.pre) : last.pre[i].tick > last.current_tick

\* C3: a raising callback does not end the call: tick() returns, the pair of
\* the failing event holds the error at that event's position, every due
\* event is invoked in the normal order, and the failing event leaves the
\* pending list like any other.
C3_CallbackFailureIsolated ==
    last.op = "tick" =>
        /\ ~last.raised
        /\ Len(last.ret) = Len(last.fired)
        /\ SeqsOf(last.fired) = DueIn(last.pre, last.current_tick)
        /\ \A i \in 1..Len(last.fired) :
              /\ last.ret[i].event_id = last.fired[i].event_id
              /\ (last.fired[i].callback = "fail") <=> (last.ret[i].result = "error")
              /\ last.fired[i].seq \notin SeqsOf(events)
        /\ \A i, j \in 1..Len(last.fired) :
              i < j => \/ last.fired[i].tick < last.fired[j].tick
                       \/ /\ last.fired[i].tick = last.fired[j].tick
                          /\ last.fired[i].seq < last.fired[j].seq

\* C3 witness: a tick() call in which a callback raised and a callback due
\* after it was still invoked.
C3_Witness ==
    /\ last.op = "tick"
    /\ \E i, j \in 1..Len(last.fired) :
          /\ i < j
          /\ last.fired[i].callback = "fail"
          /\ last.ret[i].result = "error"
          /\ last.ret[j].result # "error"

\* C4: no callback is invoked more than once over the life of the
\* EventSystem, and a tick(c) that follows a tick(c) with the same argument,
\* no schedule() having run since that earlier call began, invokes nothing
\* and returns the empty list.
C4_NoDoubleFire ==
    /\ \A s \in 1..Len(fireCount) : fireCount[s] <= 1
    /\ (last.op = "tick" /\ last.preQuiet = {last.current_tick}) =>
          (last.ret = <<>> /\ last.fired = <<>> /\ events = last.pre)

\* C4 witness: a second tick(c) with the same argument after a first one
\* that fired an event.
C4_Witness ==
    /\ last.op = "tick"
    /\ last.preQuiet = {last.current_tick}
    /\ \E s \in 1..Len(fireCount) : fireCount[s] = 1

\* C5: cancel_event(id) returns true exactly when a pending event has that
\* id; it then removes one such event and nothing else, and a removed event
\* is not invoked by any later tick(); when it returns false the pending
\* list is unchanged.
C5_CancelEvent ==
    /\ last.op = "cancel_event" =>
          /\ last.ret <=> (\E i \in 1..Len(last.pre) : last.pre[i].event_id = last.event_id)
          /\ last.ret =>
                \E i \in 1..Len(last.pre) :
                    /\ last.pre[i].event_id = last.event_id
                    /\ events = SubSeq(last.pre, 1, i - 1) \o SubSeq(last.pre, i + 1, Len(last.pre))
                    /\ last.pre[i].seq \notin SeqsOf(events)
                    /\ fireCount[last.pre[i].seq] = 0
          /\ ~last.ret => events = last.pre
    /\ \A x \in cancelled :
          /\ x.seq \notin SeqsOf(events)
          /\ fireCount[x.seq] = 0

\* C5 witness: a tick(c) call made after an event due at c was cancelled,
\* which fired another event.
C5_Witness ==
    /\ last.op = "tick"
    /\ last.fired # <<>>
    /\ \E x \in cancelled : x.tick <= last.current_tick

\* C18: after any sequence of schedule() calls, some with a caller-supplied
\* event_id and some with a generated one, no two events held by the
\* EventSystem have the same event_id.
C18_EventIdsUnique ==
    \A i, j \in 1..Len(events) : events[i].event_id = events[j].event_id => i = j

\* The event objects scheduled so far, by a client or by a callback, that
\* were not fired, cancelled or cleared since.
Outstanding ==
    {s \in 1..nobj : /\ fireCount[s] = 0
                     /\ s \notin {x.seq : x \in cancelled}
                     /\ s \notin cleared}

\* C19: between calls the pending list holds exactly the events that were
\* scheduled and not since fired, cancelled or cleared;
\* get_pending_events() lists them with tick and event_id and modifies
\* nothing; clear_all_events() returns the number of events that were
\* pending and leaves none, and no event it removed fires later.
C19_PendingIsOutstanding ==
    /\ SeqsOf(events) = Outstanding
    /\ last.op = "get_pending_events" =>
          /\ Len(last.ret) = Len(events)
          /\ \A i \in 1..Len(events) :
                /\ last.ret[i].tick = events[i].tick
                /\ last.ret[i].event_id = events[i].event_id
          /\ events = last.pre
          /\ next_event_id = last.preNext
    /\ last.op = "clear_all_events" =>
          /\ last.ret = Len(last.pre)
          /\ events = <<>>
    /\ \A s \in cleared : s \notin SeqsOf(events) /\ fireCount[s] = 0

\* The event objects created while the last tick() call was dispatching,
\* that is, scheduled by its callbacks.
ScheduledDuringTick == {s \in 1..nobj : s > last.preObjects}

\* C27: an event that a callback schedules on the same EventSystem while
\* tick(c) is dispatching is not invoked during that tick(c) call and is
\* still pending when the call returns, whatever its tick and event_id,
\* those of an event fired in the same call included.
C27_ScheduledDuringTickSurvives ==
    last.op = "tick" =>
        \A s \in ScheduledDuringTick :
            /\ \A i \in 1..Len(last.fired) : last.fired[i].seq # s
            /\ fireCount[s] = 0
            /\ s \in SeqsOf(events)

\* C22: schedule() with tick < 0 raises and stores nothing: the pending
\* events and the next generated id are those before the call; schedule()
\* with tick 0 is accepted, and tick(0) fires the events scheduled at 0.
C22_NegativeTickRejected ==
    /\ last.op = "schedule" =>
          /\ last.raised <=> last.tick < 0
          /\ last.raised =>
                /\ events = last.pre
                /\ next_event_id = last.preNext
          /\ last.tick = 0 =>
                /\ Len(events) = Len(last.pre) + 1
                /\ events[Len(events)].tick = 0
                /\ events[Len(events)].event_id = last.ret
    /\ (last.op = "tick" /\ last.current_tick = 0) =>
          \A i \in 1..Len(last.pre) :
              last.pre[i].tick = 0 => last.pre[i].seq \in SeqsOf(last.fired)

\* C22 witness: schedule() with a negative tick raised on an EventSystem
\* that holds an event and has generated an id.
C22_Witness ==
    /\ last.op = "schedule"
    /\ last.tick < 0
    /\ last.raised
    /\ last.pre # <<>>
    /\ last.preNext > 0

(***************************************************************************)
(*             Properties of the WorldState and the GameEngine             *)
(***************************************************************************)

\* The entity registered under id in the registry ents.
Registered(ents, id) == \E i \in 1..Len(ents) : ents[i].id = id
EntityAt(ents, id) == ents[CHOOSE i \in 1..Len(ents) : ents[i].id = id]
IdSet(ents) == {ents[i].id : i \in 1..Len(ents)}

\* C6: add_entity with an id that is already registered raises, and leaves
\* the registry as it was: the id still maps to the entity added first, and
\* the registered ids and the time are those before the call. (An id is
\* never registered twice.)
C6_DuplicateAddRejected ==
    /\ \A i, j \in 1..Len(entities) : entities[i].id = entities[j].id => i = j
    /\ last.op = "add_entity" =>
          /\ last.raised <=> Registered(last.pre.entities, last.entity.id)
          /\ last.raised =>
                /\ EntityAt(entities, last.entity.id) = EntityAt(last.pre.entities, last.entity.id)
                /\ IdSet(entities) = IdSet(last.pre.entities)
                /\ entities = last.pre.entities
                /\ time = last.pre.time

\* C6 witness: add_entity was refused for an entity that differs from the
\* one registered under its id.
C6_Witness ==
    /\ last.op = "add_entity"
    /\ last.raised
    /\ Registered(entities, last.entity.id)
    /\ EntityAt(entities, last.entity.id) # last.entity
    /\ time > 0

WorldOnlyReads == {"add_entity", "remove_entity", "get_entity", "get_all_entity_ids", "to_dict"}

\* C7: the time of a new world is 0, tick() adds exactly 1 and returns the new
\* value, no other WorldState operation changes it; the time never decreases
\* and equals the number of tick() calls made on the world.
C7_TimeCountsTicks ==
    /\ time = tickCalls
    /\ last.op = "init" => time = 0
    /\ last.op # "init" => time >= last.pre.time
    /\ last.op = "world_tick" => (time = last.pre.time + 1 /\ last.ret = time)
    /\ last.op \in WorldOnlyReads => time = last.pre.time

\* C7 witness: an operation other than tick() ran on a world whose time had
\* been advanced twice or more.
C7_Witness ==
    /\ last.op \in WorldOnlyReads
    /\ time >= 2
    /\ tickCalls >= 2

\* C8: step(), in either mode, with or without an action, advances the time
\* by exactly 1 and returns the new time; it applies no action: the entities
\* (positions, properties, membership) are those before the call.
C8_StepAdvancesOneTick ==
    last.op = "step" =>
        /\ time = last.pre.time + 1
        /\ last.ret = time
        /\ entities = last.pre.entities
        /\ IdSet(entities) = IdSet(last.pre.entities)

\* C8 witness: step() in PLAYER mode with a move action towards a position
\* the first registered entity is not on.
C8_Witness ==
    /\ last.op = "step"
    /\ last.pre.mode = "player"
    /\ last.action # NoAction
    /\ last.action[1].action_type = "move"
    /\ entities # <<>>
    /\ entities[1].position.x # last.action[1].target_position[1].x

\* n sequential step() calls with no action.
RECURSIVE StepTimes(_, _)
StepTimes(w, n) == IF n = 0 THEN w ELSE StepTimes(EngineStep(w, NoAction), n - 1)

\* C9: run_headless(n), n >= 0, in either mode, ends in the state n
\* sequential step() calls with no action end in: the time is the old time
\* plus n, entities and mode are unchanged; it returns the final time, and
\* run_headless(0) leaves the time unchanged.
C9_RunHeadlessEqualsSteps ==
    (last.op = "run_headless" /\ ~last.raised) =>
        /\ [entities |-> entities, time |-> time, mode |-> mode]
               = StepTimes(last.pre, last.ticks)
        /\ time = last.pre.time + last.ticks
        /\ entities = last.pre.entities
        /\ mode = last.pre.mode
        /\ last.ret = time
        /\ last.ticks = 0 => time = last.pre.time

\* C9 witness: run_headless(n) with n >= 2 on a populated world whose time
\* had already advanced.
C9_Witness ==
    /\ last.op = "run_headless"
    /\ ~last.raised
    /\ last.ticks >= 2
    /\ last.pre.time > 0
    /\ entities # <<>>

\* C17: for every world reached by add_entity, remove_entity and tick,
\* from_dict(to_dict()) succeeds and yields a world with the same time, the
\* same number of entities, the same set of ids and, for each id, the same
\* position.
C17_RoundTrip ==
    last.op = "from_dict" =>
        /\ ~last.raised
        /\ last.ret.time = time
        /\ Len(last.ret.entities) = Len(entities)
        /\ IdSet(last.ret.entities) = IdSet(entities)
        /\ \A id \in IdSet(entities) :
              EntityAt(last.ret.entities, id).position = EntityAt(entities, id).position

\* C17 witness: the round trip of a world that holds two entities and has
\* ticked.
C17_Witness ==
    /\ last.op = "from_dict"
    /\ ~last.raised
    /\ Len(entities) = 2
    /\ time >= 1

\* C23: run_headless(n) with n < 0 raises before any tick is made: the
\* world time, the entities and the engine mode are those before the call.
C23_NegativeRunRejected ==
    last.op = "run_headless" =>
        /\ last.raised <=> last.ticks < 0
        /\ last.ticks < 0 =>
              /\ time = last.pre.time
              /\ entities = last.pre.entities
              /\ mode = last.pre.mode

\* C23 witness: run_headless with a negative argument raised in HEADLESS
\* mode on a populated world that had ticked.
C23_Witness ==
    /\ last.op = "run_headless"
    /\ last.ticks < 0
    /\ last.raised
    /\ last.pre.time > 0
    /\ last.pre.entities # <<>>
    /\ last.pre.mode = "headless"

\* C24: the engine mode is always PLAYER or HEADLESS and only set_mode
\* changes it: set_mode(m) leaves the mode m, and leaves every part of the
\* state as it was when m is the current mode; step, run_headless and
\* get_current_time leave the mode as it was; get_current_time returns the
\* world time and changes nothing.
C24_ModeOnlyBySetMode ==
    /\ mode \in {"player", "headless"}
    /\ last.op \in {"step", "run_headless", "get_current_time"} => mode = last.pre.mode
    /\ last.op = "set_mode" =>
          /\ mode = last.mode
          /\ entities = last.pre.entities
          /\ time = last.pre.time
    /\ last.op = "get_current_time" =>
          /\ last.ret = time
          /\ WorldPre = last.pre

\* C24 witness: set_mode switched the mode of an engine whose world is
\* populated and has ticked.
C24_Witness ==
    /\ last.op = "set_mode"
    /\ last.pre.mode # last.mode
    /\ mode = last.mode
    /\ time > 0
    /\ entities # <<>>

(***************************************************************************)
(*                    Properties of the ActionHandler                      *)
(***************************************************************************)

Sign(d) == IF d > 0 THEN 1 ELSE IF d < 0 THEN -1 ELSE 0

\* A handle_action call with a move action that has a target, for a
\* registered entity.
MoveCall ==
    /\ last.op = "handle_action"
    /\ last.action.action_type = "move"
    /\ last.action.target_position # NoPosition
    /\ Registered(last.pre.entities, last.entity_id)

\* C10: such a call returns true and changes the entity's x by
\* sign(target.x - x) and its y by sign(target.y - y): one step per axis
\* towards the target, none for an entity already on it.
C10_MoveOneStep ==
    MoveCall =>
        LET old == EntityAt(last.pre.entities, last.entity_id).position
            new == EntityAt(entities, last.entity_id).position
            target == last.action.target_position[1]
        IN  /\ last.ret = TRUE
            /\ new.x = old.x + Sign(target.x - old.x)
            /\ new.y = old.y + Sign(target.y - old.y)
            /\ new.x - old.x \in {-1, 0, 1}
            /\ new.y - old.y \in {-1, 0, 1}
            /\ (old.x = target.x /\ old.y = target.y) => (new.x = old.x /\ new.y = old.y)

\* C10 witness: a move towards a target two or more units away on x and
\* behind the entity on y.
C10_Witness ==
    /\ MoveCall
    /\ last.ret = TRUE
    /\ LET old == EntityAt(last.pre.entities, last.entity_id).position
           target == last.action.target_position[1]
       IN  /\ target.x >= old.x + 2
           /\ target.y < old.y

\* A handle_action call with an attack action, for a registered attacker.
AttackCall ==
    /\ last.op = "handle_action"
    /\ last.action.action_type = "attack"
    /\ Registered(last.pre.entities, last.entity_id)

\* C11: such a call returns true exactly when target_entity_id is given,
\* names an entity present in the world, and that entity's location_id
\* equals the attacker's; the distance between the two in x and y plays no
\* part.
C11_AttackSameLocation ==
    AttackCall =>
        LET ents == last.pre.entities
            target == last.action.target_entity_id
        IN  last.ret <=>
                /\ target # None
                /\ Registered(ents, target)
                /\ EntityAt(ents, target).position.location_id
                      = EntityAt(ents, last.entity_id).position.location_id

\* C11 witness: an attack that succeeded on another entity of the same
\* location standing two or more units away on both axes.
C11_Witness ==
    /\ AttackCall
    /\ last.ret = TRUE
    /\ last.action.target_entity_id # last.entity_id
    /\ LET a == EntityAt(last.pre.entities, last.entity_id).position
           t == EntityAt(last.pre.entities, last.action.target_entity_id).position
       IN  /\ (a.x - t.x >= 2 \/ t.x - a.x >= 2)
           /\ (a.y - t.y >= 2 \/ t.y - a.y >= 2)

\* A handle_action call the handler turns down: an unregistered entity_id,
\* an action type other than move, attack and idle, or a move with no target.
RejectedCall ==
    /\ last.op = "handle_action"
    /\ \/ ~Registered(last.pre.entities, last.entity_id)
       \/ last.action.action_type \notin {"move", "attack", "idle"}
       \/ (last.action.action_type = "move" /\ last.action.target_position = NoPosition)

\* C12: such a call returns false, raises nothing, and leaves every entity,
\* the registry and the time as they were.
C12_RejectedCallsChangeNothing ==
    RejectedCall =>
        /\ last.ret = FALSE
        /\ ~last.raised
        /\ entities = last.pre.entities
        /\ time = last.pre.time

\* C12 witness: an action of unknown type for a registered entity, in a
\* world holding a second entity.
C12_Witness ==
    /\ RejectedCall
    /\ Registered(last.pre.entities, last.entity_id)
    /\ last.action.action_type \notin {"move", "attack", "idle"}
    /\ Len(last.pre.entities) = 2

(***************************************************************************)
(*                    Properties of the NPC behaviours                     *)
(***************************************************************************)

\* An apply_action call with a move action that has a target.
ApplyMoveCall ==
    /\ last.op = "apply_action"
    /\ last.action.action_type = "move"
    /\ last.action.target_position # NoPosition

\* C13: for every position of the NPC and every move action with a target,
\* apply_action leaves the NPC on the position that handle_action, given
\* the same action for the same registered entity in the same world, would
\* leave it on.
C13_ApplyActionMovesAsHandler ==
    ApplyMoveCall =>
        LET handled == HandleActionBody(last.pre.entities, last.action, NpcId)
        IN  /\ handled.ret = TRUE
            /\ EntityAt(entities, NpcId).position
                  = EntityAt(handled.entities, NpcId).position

\* C13 witness: an apply_action move that changed x and y, towards a target
\* more than one step away.
C13_Witness ==
    /\ ApplyMoveCall
    /\ LET old == EntityAt(last.pre.entities, NpcId).position
           new == EntityAt(entities, NpcId).position
           target == last.action.target_position[1]
       IN  /\ new.x # old.x
           /\ new.y # old.y
           /\ new # target

\* The NPC before and after the last call, its route and the index that
\* was current when the call began.
NpcBefore == EntityAt(last.pre.entities, NpcId)
NpcAfter == EntityAt(entities, NpcId)
RouteBefore == Get(NpcBefore.properties, "waypoints", <<>>)
IndexBefore == Get(NpcBefore.properties, "current_waypoint_index", 0)
IndexStored(npc) == "current_waypoint_index" \in DOMAIN npc.properties

\* C14: patrol_behavior with a non-empty route and current index i: an NPC
\* whose (x, y, location_id) equals waypoints[i] gets (i + 1) mod
\* len(waypoints) stored as its index and a move action towards that next
\* waypoint, in the same call; otherwise the stored index is as before and
\* the move action targets waypoints[i]; with no waypoints the action is
\* idle.
C14_PatrolAdvancesOnArrival ==
    last.op = "patrol_behavior" =>
        IF RouteBefore = <<>>
        THEN last.ret = Idle
        ELSE IF NpcBefore.position = RouteBefore[IndexBefore + 1]
        THEN LET next == (IndexBefore + 1) % Len(RouteBefore)
             IN  /\ IndexStored(NpcAfter)
                 /\ NpcAfter.properties["current_waypoint_index"] = next
                 /\ last.ret = MoveTo(RouteBefore[next + 1])
                 /\ last.waypoint_index = <<next>>
        ELSE /\ IndexStored(NpcAfter) <=> IndexStored(NpcBefore)
             /\ Get(NpcAfter.properties, "current_waypoint_index", 0) = IndexBefore
             /\ last.ret = MoveTo(RouteBefore[IndexBefore + 1])

\* C14 witness: the NPC stood on the last waypoint of a route of two
\* different waypoints; the index wrapped to 0.
C14_Witness ==
    /\ last.op = "patrol_behavior"
    /\ Len(RouteBefore) >= 2
    /\ RouteBefore[1] # RouteBefore[Len(RouteBefore)]
    /\ IndexBefore = Len(RouteBefore) - 1
    /\ NpcBefore.position = RouteBefore[IndexBefore + 1]
    /\ NpcAfter.properties["current_waypoint_index"] = 0

\* Manhattan distance between two entities.
Manhattan(a, b) == Abs(a.position.x - b.position.x) + Abs(a.position.y - b.position.y)

\* The registry indices of the entities an NPC may attack on sight: not the
\* NPC itself, in its location, of a type it is hostile to, within its
\* detection range.
Qualifying(ents, npc) ==
    {k \in 1..Len(ents) :
        /\ ents[k].id # npc.id
        /\ ents[k].position.location_id = npc.position.location_id
        /\ InSeq(Get(ents[k].properties, "type", ""),
                 Get(npc.properties, "hostile_to", <<"player">>))
        /\ Manhattan(ents[k], npc) <= Get(npc.properties, "detection_range", 5)}

\* C15: attack_on_sight_behavior returns an attack action only against a
\* qualifying entity than which no other qualifying entity is strictly
\* closer, and an idle action exactly when no entity qualifies.
C15_AttackClosestQualifying ==
    last.op = "attack_on_sight_behavior" =>
        LET ents == last.pre.entities
            Q == Qualifying(ents, NpcBefore)
        IN  /\ last.ret.action_type \in {"attack", "idle"}
            /\ last.ret.action_type = "attack" =>
                  \E k \in Q :
                      /\ ents[k].id = last.ret.target_entity_id
                      /\ \A j \in Q : Manhattan(ents[j], NpcBefore) >= Manhattan(ents[k], NpcBefore)
            /\ last.ret = Idle <=> Q = {}

\* C15 witness: two entities qualified and the one attacked, registered
\* after the other, was strictly closer.
C15_Witness ==
    /\ last.op = "attack_on_sight_behavior"
    /\ last.ret.action_type = "attack"
    /\ LET ents == last.pre.entities
           Q == Qualifying(ents, NpcBefore)
       IN  \E j, k \in Q :
               /\ j < k
               /\ ents[k].id = last.ret.target_entity_id
               /\ Manhattan(ents[k], NpcBefore) < Manhattan(ents[j], NpcBefore)

\* A call of one of the three behaviour functions.
BehaviourCall ==
    last.op \in {"idle_behavior", "patrol_behavior", "attack_on_sight_behavior"}

\* C16 as stated: no behaviour function mutates state; after a call the
\* NPC's position and properties, every other entity, the registry and the
\* world time are the same as before the call.
C16_BehavioursMutateNothing ==
    BehaviourCall =>
        /\ entities = last.pre.entities
        /\ time = last.pre.time

\* C16 amended: idle_behavior and attack_on_sight_behavior change nothing;
\* patrol_behavior changes nothing but the NPC's stored
\* current_waypoint_index, and that only for an NPC standing on its current
\* waypoint, where (i + 1) mod len(waypoints) is stored; the NPC's position
\* and other properties, every other entity, the registry and the time are
\* as before the call.
C16_BehavioursMutateOnlyTheIndex ==
    BehaviourCall =>
        /\ time = last.pre.time
        /\ Len(entities) = Len(last.pre.entities)
        /\ \A k \in 1..Len(entities) :
              /\ entities[k].id = last.pre.entities[k].id
              /\ entities[k].position = last.pre.entities[k].position
              /\ entities[k].id # NpcId => entities[k] = last.pre.entities[k]
        /\ \A key \in DOMAIN NpcBefore.properties \ {"current_waypoint_index"} :
              /\ key \in DOMAIN NpcAfter.properties
              /\ NpcAfter.properties[key] = NpcBefore.properties[key]
        /\ DOMAIN NpcAfter.properties
              \subseteq DOMAIN NpcBefore.properties \cup {"current_waypoint_index"}
        /\ NpcAfter.properties # NpcBefore.properties =>
              /\ last.op = "patrol_behavior"
              /\ RouteBefore # <<>>
              /\ NpcBefore.position = RouteBefore[IndexBefore + 1]
              /\ NpcAfter.properties["current_waypoint_index"]
                    = (IndexBefore + 1) % Len(RouteBefore)

\* C16 witness: a patrol_behavior call that stored a new index for the NPC,
\* in a world holding another entity.
C16_Witness ==
    /\ last.op = "patrol_behavior"
    /\ NpcAfter.properties # NpcBefore.properties
    /\ Len(entities) >= 2

(***************************************************************************)
(*                      Properties of the TimeSystem                       *)
(***************************************************************************)

\* Two advance calls in a row that both returned: the first began at tick
\* start with ticks1, the second is the one recorded in last.
TwoAdvances ==
    /\ last.op = "advance"
    /\ ~last.raised
    /\ last.previous # <<>>

\* C20: advance(ticks1) followed by advance(ticks2), both arguments >= 0,
\* leaves the same current_tick and returns the same value as one
\* advance(ticks1 + ticks2) from the same starting tick.
C20_AdvanceAdditive ==
    TwoAdvances =>
        LET start == last.previous[1].start
            single == AdvanceBody(start, last.previous[1].ticks + last.ticks)
        IN  /\ ~single.raised
            /\ current_tick = single.current_tick
            /\ last.ret = single.ret

\* C20 witness: two advances by different positive amounts from a starting
\* tick other than 0.
C20_Witness ==
    /\ TwoAdvances
    /\ last.previous[1].start > 0
    /\ last.previous[1].ticks > 0
    /\ last.ticks > 0
    /\ last.ticks # last.previous[1].ticks

\* C21: current_tick never decreases over advance calls: advance(ticks)
\* with ticks < 0 raises and leaves current_tick as it was; advance(ticks)
\* with ticks >= 0 stores and returns the old current_tick plus ticks, so
\* advance(0) changes nothing.
C21_AdvanceMonotonic ==
    last.op = "advance" =>
        /\ current_tick >= last.pre
        /\ last.ticks < 0 =>
              /\ last.raised
              /\ last.ret = <<>>
              /\ current_tick = last.pre
        /\ last.ticks >= 0 =>
              /\ ~last.raised
              /\ current_tick = last.pre + last.ticks
              /\ last.ret = <<last.pre + last.ticks>>
        /\ last.ticks = 0 => current_tick = last.pre

\* C21 witness: advance with a negative argument raised on a TimeSystem
\* that earlier advances had moved past its starting tick.
C21_Witness ==
    /\ last.op = "advance"
    /\ last.raised
    /\ last.ticks < 0
    /\ last.pre > MaxStart

Min(a, b) == IF a <= b THEN a ELSE b
Max(a, b) == IF a >= b THEN a ELSE b

\* The coordinate reached from c0 after k steps towards t.
Stepped(c0, t, k) == c0 + Sign(t - c0) * Min(k, Abs(t - c0))

\* C25: after k successive handle_action move calls towards one target,
\* each coordinate of the entity has moved min(k, |t - c0|) units from its
\* start c0 towards the target's coordinate t: the entity is on the target
\* from the call number max(|tx - x0|, |ty - y0|) on and not before, and at
\* no call is a coordinate past the target's.
C25_MovesReachTarget ==
    (last.op = "handle_action" /\ "streak" \in DOMAIN last) =>
        LET start == last.streak.start
            k == last.streak.k
            target == last.action.target_position[1]
            pos == EntityAt(entities, last.entity_id).position
            calls == Max(Abs(target.x - start.x), Abs(target.y - start.y))
        IN  /\ last.ret = TRUE
            /\ pos.x = Stepped(start.x, target.x, k)
            /\ pos.y = Stepped(start.y, target.y, k)
            /\ (pos.x = target.x /\ pos.y = target.y) <=> k >= calls
            /\ Abs(target.x - pos.x) <= Abs(target.x - start.x)
            /\ Abs(target.y - pos.y) <= Abs(target.y - start.y)
            /\ Sign(target.x - pos.x) \in {0, Sign(target.x - start.x)}
            /\ Sign(target.y - pos.y) \in {0, Sign(target.y - start.y)}

\* C25 witness: a call made after the entity had arrived, on a target at
\* different distances on the two axes, two or more units away.
C25_Witness ==
    /\ last.op = "handle_action"
    /\ "streak" \in DOMAIN last
    /\ LET start == last.streak.start
           target == last.action.target_position[1]
       IN  /\ Abs(target.x - start.x) >= 2
           /\ Abs(target.y - start.y) # Abs(target.x - start.x)
           /\ target.y # start.y
           /\ last.streak.k > Abs(target.x - start.x)

(***************************************************************************)
(*                     Properties of the patrol cycle                      *)
(***************************************************************************)

\* The NPC of the patrol, its route and its current index.
Patroller == EntityAt(entities, NpcId)
Route == Patroller.properties.waypoints
Index == Get(Patroller.properties, "current_waypoint_index", 0)

\* The NPC stands on waypoint number k of its route (k counted from 1),
\* which is the one its index points at.
Visiting(k) == k <= Len(Route) => (Patroller.position = Route[k] /\ Index = k - 1)

\* What holds of a leg at every moment: the NPC is on the waypoint headed
\* for exactly from max(|dx|, |dy|) cycles on, and the next patrol_behavior
\* call then begins the next leg.
LegTiming ==
    ("leg" \in DOMAIN last /\ last.leg # <<>>) =>
        LET leg == last.leg[1]
            d == IF Abs(leg.to.x - leg.from.x) >= Abs(leg.to.y - leg.from.y)
                 THEN Abs(leg.to.x - leg.from.x) ELSE Abs(leg.to.y - leg.from.y)
        IN  /\ Patroller.position = leg.to <=> leg.cycles >= d
            /\ leg.cycles <= (IF d = 0 THEN 1 ELSE d)
            /\ leg.to = Route[Index + 1]

\* A patrol_behavior call made with the NPC on its current waypoint has
\* advanced the index.
AdvancedOnArrival ==
    (last.op = "patrol_behavior"
        /\ EntityAt(last.pre.entities, NpcId).position
              = Route[Get(EntityAt(last.pre.entities, NpcId).properties,
                          "current_waypoint_index", 0) + 1]) =>
        /\ "current_waypoint_index" \in DOMAIN Patroller.properties
        /\ Index = (Get(EntityAt(last.pre.entities, NpcId).properties,
                        "current_waypoint_index", 0) + 1) % Len(Route)

\* C26: an NPC whose waypoints all lie in its own location, driven forever
\* by the cycle patrol_behavior, apply_action, stands on every waypoint of
\* its route infinitely often, the index moving through the route in list
\* order and wrapping from the last waypoint to the first; each leg from
\* one waypoint to the next takes max(|dx|, |dy|) cycles, and the index
\* advances in the first patrol_behavior call made after arrival.
C26_PatrolVisitsAllWaypoints ==
    /\ \A k \in 1..MaxWaypoints : []<>Visiting(k)
    /\ [][Index' \in {Index, (Index + 1) % Len(Route)}]_cycleVars
    /\ [](LegTiming /\ AdvancedOnArrival)

\* C26 witness: the NPC has come back to the first waypoint of a route of
\* two or more waypoints, from the last one, which lies elsewhere.
C26_Witness ==
    /\ "leg" \in DOMAIN last
    /\ last.leg # <<>>
    /\ Len(Route) >= 2
    /\ Index = 0
    /\ last.leg[1].to = Route[1]
    /\ last.leg[1].from = Route[Len(Route)]
    /\ last.leg[1].from # last.leg[1].to
    /\ Patroller.position = Route[1]
    /\ last.leg[1].cycles >= 2

(***************************************************************************)
(*          Properties of behaviours followed by the ActionHandler         *)
(***************************************************************************)

\* C28: whenever attack_on_sight_behavior returns an attack action for an
\* NPC registered in the world, the target exists and shares the NPC's
\* location_id, and handle_action(action, npc.id) called with that action
\* on the unchanged world returns true.
C28_SightedTargetIsAttackable ==
    /\ (last.op = "attack_on_sight_behavior" /\ last.ret.action_type = "attack") =>
          /\ HasEntity(entities, last.ret.target_entity_id)
          /\ EntityAt(entities, last.ret.target_entity_id).position.location_id
                = EntityAt(entities, NpcId).position.location_id
    /\ (/\ last.op = "handle_action"
        /\ last.entity_id = NpcId
        /\ last.action.action_type = "attack"
        /\ last.action = AttackOnSightBody(last.pre.entities,
                                           IndexOf(last.pre.entities, NpcId)).action) =>
          last.ret = TRUE

\* C28 witness: handle_action accepted the attack that the
\* attack_on_sight_behavior call just before it returned, in a world that
\* also holds a hostile entity in another location.
C28_Witness ==
    /\ last.op = "handle_action"
    /\ last.behaviour = "attack_on_sight_behavior"
    /\ last.action.action_type = "attack"
    /\ last.ret = TRUE
    /\ \E k \in 1..Len(entities) :
          /\ entities[k].id # NpcId
          /\ entities[k].properties.type = "player"
          /\ entities[k].position.location_id # EntityAt(entities, NpcId).position.location_id

\* A handle_action call that returned true.
AcceptedCall == last.op = "handle_action" /\ last.ret = TRUE

\* C29: a successful move changes only the x and y of the acting entity:
\* its location_id and properties, every other entity, the registered ids
\* and the world time stay as they were, also when the target_position
\* names another location; a successful attack or idle changes nothing,
\* neither the attacker nor the target.
C29_HandlerFrame ==
    AcceptedCall =>
        LET old == last.pre.entities
        IN  /\ time = last.pre.time
            /\ Len(entities) = Len(old)
            /\ \A k \in 1..Len(old) :
                  /\ entities[k].id = old[k].id
                  /\ entities[k].position.location_id = old[k].position.location_id
                  /\ entities[k].properties = old[k].properties
                  /\ old[k].id # last.entity_id => entities[k] = old[k]
            /\ last.action.action_type \in {"attack", "idle"} => entities = old

\* C29 witness: a move that took the entity a step on both axes towards a
\* target_position of another location, in a world holding a second entity.
C29_Witness ==
    /\ AcceptedCall
    /\ last.action.action_type = "move"
    /\ Len(entities) = 2
    /\ LET old == EntityAt(last.pre.entities, last.entity_id).position
           new == EntityAt(entities, last.entity_id).position
       IN  /\ last.action.target_position[1].location_id # old.location_id
           /\ new.x # old.x
           /\ new.y # old.y

\* C30: for an NPC with a non-empty waypoint list whose index is absent or
\* within the list at first, after any sequence of patrol_behavior,
\* apply_action and handle_action calls the list is the same and the
\* stored index is within 0..len(waypoints)-1, so that patrol_behavior
\* reads and returns waypoints of the list only; with a single waypoint
\* the index stays 0.
C30_IndexWithinRoute ==
    /\ Route # <<>>
    /\ Index \in 0..(Len(Route) - 1)
    /\ Len(Route) = 1 => Index = 0
    /\ last.op # "init" =>
          Route = EntityAt(last.pre.entities, NpcId).properties.waypoints
    /\ last.op = "patrol_behavior" =>
          /\ Get(EntityAt(last.pre.entities, NpcId).properties,
                 "current_waypoint_index", 0) + 1 \in DOMAIN Route
          /\ last.waypoint_index = <<Index>>
          /\ last.ret = MoveTo(Route[Index + 1])

\* C30 witness: patrol_behavior, called for an NPC standing on the last
\* waypoint of a route of two or more with the index on it, wrapped the
\* index to 0.
C30_Witness ==
    /\ last.op = "patrol_behavior"
    /\ Len(Route) >= 2
    /\ Get(EntityAt(last.pre.entities, NpcId).properties,
           "current_waypoint_index", 0) = Len(Route) - 1
    /\ EntityAt(last.pre.entities, NpcId).position = Route[Len(Route)]
    /\ Route[1] # Route[Len(Route)]
    /\ "current_waypoint_index" \in DOMAIN Patroller.properties
    /\ Index = 0

====
